---- MODULE Spec2Model ----
(***************************************************************************)
(* rusty-open: the resolution pipeline of src/main.rs (open), the .desktop *)
(* parser and the Exec tokenizer of src/xdg_desktop_file.rs, and the query *)
(* backends of src/generic_xdg.rs and src/qt_xdg.rs.                       *)
(*                                                                         *)
(* Text (String, OsString, PathBuf, stdout bytes) is a sequence of         *)
(* one-character strings; InvalidByte stands for a byte that is not valid  *)
(* UTF-8.                                                                  *)
(***************************************************************************)
EXTENDS Integers, Sequences, FiniteSets, TLC

VARIABLES
    pc,         \* position of the run: main, the stages of open(), event_loop, panicked
    arg,        \* std::env::args_os().nth(1): None or the resource reference
    de,         \* DesktopEnvironment::detect()
    data_dir,   \* dirs::data_dir(): None or the user data directory
    fs,         \* what read_to_string finds for the handler id in each directory
    url_mime,   \* open: url_mime
    url_path,   \* open: url_path
    mime,       \* open: mime
    default,    \* open: default (Option<String>)
    status,     \* main: status
    log,        \* history of the external calls made so far, in order
    rw_open,    \* main: rw.is_open()
    fallback_exec_string,  \* main: fallback_exec_string
    spawns,     \* history of the calls of spawn_command, in order
    ev,         \* main: the events polled and the input egui sees in the current frame
    lines,      \* input of a run of parse_desktop_file alone
    exec,       \* input of a run of args_from_exec_string alone
    stdout,     \* input of a run of the query functions alone
    result      \* result of the function run alone

\* the variables of the event loop
gui == <<rw_open, fallback_exec_string, spawns, ev>>

vars == <<pc, arg, de, data_dir, fs, url_mime, url_path, mime, default, status, log,
          rw_open, fallback_exec_string, spawns, ev, lines, exec, stdout, result>>

None == [some |-> FALSE]
Some(v) == [some |-> TRUE, val |-> v]
Ok(v) == [ok |-> TRUE, val |-> v]
Err(e) == [ok |-> FALSE, err |-> e]

InvalidByte == "0xFF"
\* the grave accent, which a TLA+ string cannot hold
Backtick == "0x60"
WhiteSpace == {" ", "\t", "\n", "\r"}

RECURSIVE TrimStart(_)
TrimStart(s) ==
    IF s # <<>> /\ Head(s) \in WhiteSpace THEN TrimStart(Tail(s)) ELSE s

RECURSIVE TrimEnd(_)
TrimEnd(s) ==
    IF s # <<>> /\ s[Len(s)] \in WhiteSpace
    THEN TrimEnd(SubSeq(s, 1, Len(s) - 1))
    ELSE s

\* str::trim
Trim(s) == TrimEnd(TrimStart(s))

\* str::starts_with / str::ends_with
StartsWith(s, p) == Len(s) >= Len(p) /\ SubSeq(s, 1, Len(p)) = p
EndsWith(s, p) == Len(s) >= Len(p) /\ SubSeq(s, Len(s) - Len(p) + 1, Len(s)) = p

\* OsStr::to_str / std::str::from_utf8: the text when every byte is valid
IsUtf8(s) == \A i \in 1..Len(s) : s[i] # InvalidByte

(***************************************************************************)
(* The query backends.  output is the io::Result of Command::output(): an  *)
(* error (the command could not be run) or the stdout bytes of the child.   *)
(***************************************************************************)
\* query_mime_xdg without the check for an empty answer
generic_xdg_query_mime_xdg_empty_ok(a, output) ==
    LET cmd == <<"xdg-mime", "query", "filetype", a>>
    IN IF ~output.ok THEN [cmd |-> cmd, panic |-> TRUE, res |-> Err("panic")]
       ELSE LET out == output.val
            IN [cmd |-> cmd, panic |-> FALSE,
                res |-> IF ~IsUtf8(out) THEN Err("InvalidUtf8") ELSE Ok(Trim(out))]

generic_xdg_query_mime_xdg(a, output) ==
    LET cmd == <<"xdg-mime", "query", "filetype", a>>
    IN IF ~output.ok THEN [cmd |-> cmd, panic |-> TRUE, res |-> Err("panic")]
       ELSE LET out == output.val
            IN [cmd |-> cmd, panic |-> FALSE,
                res |-> IF ~IsUtf8(out) THEN Err("InvalidUtf8")
                        ELSE LET trimmed == Trim(out)
                             IN IF trimmed = <<>> THEN Err("Empty")
                                ELSE Ok(trimmed)]

generic_xdg_query_default(m, output) ==
    LET cmd == <<"xdg-mime", "query", "default", m>>
    IN IF ~output.ok THEN [cmd |-> cmd, panic |-> TRUE, res |-> Err("panic")]
       ELSE LET out == output.val
            IN [cmd |-> cmd, panic |-> FALSE,
                res |-> IF ~IsUtf8(out) THEN Err("InvalidUtf8")
                        ELSE LET trimmed == Trim(out)
                             IN IF trimmed = <<>> THEN Err("Empty")
                                ELSE Ok(trimmed)]

qt_xdg_query_mime(a, output) ==
    LET cmd == <<"qtxdg-mat", "mimetype", a>>
    IN IF ~output.ok THEN [cmd |-> cmd, panic |-> TRUE, res |-> Err("panic")]
       ELSE LET out == output.val
            IN [cmd |-> cmd, panic |-> FALSE,
                res |-> IF ~IsUtf8(out) THEN Err("InvalidUtf8")
                        ELSE LET trimmed == Trim(out)
                             IN IF trimmed = <<>> THEN Err("Empty")
                                ELSE Ok(trimmed)]

\* qt_xdg::query_default that returns the text without trimming it
qt_xdg_query_default_untrimmed(m, output) ==
    LET cmd == <<"qtxdg-mat", "defapp", m>>
    IN IF ~output.ok THEN [cmd |-> cmd, panic |-> TRUE, res |-> Err("panic")]
       ELSE LET out == output.val
            IN [cmd |-> cmd, panic |-> FALSE,
                res |-> IF ~IsUtf8(out) THEN Err("InvalidUtf8")
                        ELSE IF Trim(out) = <<>> THEN Err("Empty")
                        ELSE Ok(out)]

qt_xdg_query_default(m, output) ==
    LET cmd == <<"qtxdg-mat", "defapp", m>>
    IN IF ~output.ok THEN [cmd |-> cmd, panic |-> TRUE, res |-> Err("panic")]
       ELSE LET out == output.val
            IN [cmd |-> cmd, panic |-> FALSE,
                res |-> IF ~IsUtf8(out) THEN Err("InvalidUtf8")
                        ELSE LET trimmed == Trim(out)
                             IN IF trimmed = <<>> THEN Err("Empty")
                                ELSE Ok(trimmed)]

\* impl QueryExt for Option<DesktopEnvironment>
query_mime(d, a, output) ==
    IF d = Some("Lxqt") THEN qt_xdg_query_mime(a, output)
    ELSE generic_xdg_query_mime_xdg(a, output)

\* query_default that does not look at the desktop environment
query_default_generic_only(d, m, output) == generic_xdg_query_default(m, output)

query_default(d, m, output) ==
    IF d = Some("Lxqt") THEN qt_xdg_query_default(m, output)
    ELSE generic_xdg_query_default(m, output)

(***************************************************************************)
(* Url::parse, as far as open() uses it: the scheme (lower-cased) and the  *)
(* path (percent-encoded, cut at the query or fragment).                   *)
(***************************************************************************)
Lower ==
    [c \in {"A", "B", "C", "D", "E", "F", "G", "H", "I", "J", "K", "L", "M", "N", "O",
            "P", "Q", "R", "S", "T", "U", "V", "W", "X", "Y", "Z"} |->
        CASE c = "A" -> "a" [] c = "B" -> "b" [] c = "C" -> "c" [] c = "D" -> "d"
          [] c = "E" -> "e" [] c = "F" -> "f" [] c = "G" -> "g" [] c = "H" -> "h"
          [] c = "I" -> "i" [] c = "J" -> "j" [] c = "K" -> "k" [] c = "L" -> "l"
          [] c = "M" -> "m" [] c = "N" -> "n" [] c = "O" -> "o" [] c = "P" -> "p"
          [] c = "Q" -> "q" [] c = "R" -> "r" [] c = "S" -> "s" [] c = "T" -> "t"
          [] c = "U" -> "u" [] c = "V" -> "v" [] c = "W" -> "w" [] c = "X" -> "x"
          [] c = "Y" -> "y" [] c = "Z" -> "z"]

AsciiAlpha == DOMAIN Lower \cup {Lower[c] : c \in DOMAIN Lower}
AsciiDigit == {"0", "1", "2", "3", "4", "5", "6", "7", "8", "9"}
ToLower(s) == [i \in 1..Len(s) |-> IF s[i] \in DOMAIN Lower THEN Lower[s[i]] ELSE s[i]]

\* index of the ':' ending a valid scheme at the start of t, 0 if there is none
RECURSIVE SchemeEnd(_, _)
SchemeEnd(t, i) ==
    IF i > Len(t) THEN 0
    ELSE IF t[i] = ":" THEN (IF i = 1 THEN 0 ELSE i)
    ELSE IF i = 1 THEN (IF t[i] \in AsciiAlpha THEN SchemeEnd(t, i + 1) ELSE 0)
    ELSE IF t[i] \in AsciiAlpha \cup AsciiDigit \cup {"+", "-", "."}
         THEN SchemeEnd(t, i + 1)
         ELSE 0

\* the longest prefix of s with no character of stop
RECURSIVE UpTo(_, _)
UpTo(s, stop) ==
    IF s = <<>> \/ Head(s) \in stop THEN <<>> ELSE <<Head(s)>> \o UpTo(Tail(s), stop)

Drop(s, n) == SubSeq(s, n + 1, Len(s))

RECURSIVE StripSlashes(_)
StripSlashes(s) == IF s # <<>> /\ Head(s) = "/" THEN StripSlashes(Tail(s)) ELSE s

RECURSIVE PercentEncodePath(_)
PercentEncodePath(s) ==
    IF s = <<>> THEN <<>>
    ELSE (IF Head(s) = " " THEN <<"%", "2", "0">> ELSE <<Head(s)>>)
         \o PercentEncodePath(Tail(s))

SpecialSchemes == {<<"h", "t", "t", "p">>, <<"h", "t", "t", "p", "s">>, <<"w", "s">>, <<"w", "s", "s">>, <<"f", "t", "p">>, <<"f", "i", "l", "e">>}

UrlPathOf(s) == PercentEncodePath(UpTo(s, {"?", "#"}))

Url_parse(text) ==
    LET t == Trim(text)
        e == SchemeEnd(t, 1)
    IN IF e = 0 THEN Err("RelativeUrlWithoutBase")
       ELSE LET scheme == ToLower(SubSeq(t, 1, e - 1))
                rest == Drop(t, e)
            IN IF scheme = <<"f", "i", "l", "e">>
               THEN IF StartsWith(rest, <<"/", "/">>)
                    THEN LET host == UpTo(Drop(rest, 2), {"/", "?", "#"})
                             p == UrlPathOf(Drop(rest, 2 + Len(host)))
                         IN Ok([scheme |-> scheme,
                                path |-> IF p = <<>> THEN <<"/">> ELSE p])
                    ELSE Ok([scheme |-> scheme,
                             path |-> <<"/">> \o UrlPathOf(StripSlashes(rest))])
               ELSE IF scheme \in SpecialSchemes
               THEN LET r == StripSlashes(rest)
                        host == UpTo(r, {"/", "?", "#"})
                        p == UrlPathOf(Drop(r, Len(host)))
                    IN IF host = <<>> THEN Err("EmptyHost")
                       ELSE Ok([scheme |-> scheme,
                                path |-> IF p = <<>> THEN <<"/">> ELSE p])
               ELSE IF StartsWith(rest, <<"/", "/">>)
               THEN LET host == UpTo(Drop(rest, 2), {"/", "?", "#"})
                    IN Ok([scheme |-> scheme,
                           path |-> UrlPathOf(Drop(rest, 2 + Len(host)))])
               ELSE Ok([scheme |-> scheme, path |-> UpTo(rest, {"?", "#"})])

(***************************************************************************)
(* src/xdg_desktop_file.rs                                                 *)
(***************************************************************************)
\* shlex::split: POSIX-like word splitting.  Each step returns the index of
\* the next unread character.
RECURSIVE parse_double(_, _, _)
parse_double(s, i, acc) ==
    IF i > Len(s) THEN [ok |-> FALSE, i |-> i, acc |-> acc]
    ELSE IF s[i] = "\\"
    THEN IF i + 1 > Len(s) THEN [ok |-> FALSE, i |-> i + 1, acc |-> acc]
         ELSE IF s[i + 1] \in {"$", Backtick, "\"", "\\"}
              THEN parse_double(s, i + 2, Append(acc, s[i + 1]))
         ELSE IF s[i + 1] = "\n" THEN parse_double(s, i + 2, acc)
         ELSE parse_double(s, i + 2, acc \o <<"\\", s[i + 1]>>)
    ELSE IF s[i] = "\"" THEN [ok |-> TRUE, i |-> i + 1, acc |-> acc]
    ELSE parse_double(s, i + 1, Append(acc, s[i]))

RECURSIVE parse_single(_, _, _)
parse_single(s, i, acc) ==
    IF i > Len(s) THEN [ok |-> FALSE, i |-> i, acc |-> acc]
    ELSE IF s[i] = "'" THEN [ok |-> TRUE, i |-> i + 1, acc |-> acc]
    ELSE parse_single(s, i + 1, Append(acc, s[i]))

\* s[i] is the current character of the word
RECURSIVE parse_word(_, _, _)
parse_word(s, i, acc) ==
    IF i > Len(s) THEN [ok |-> TRUE, i |-> i, acc |-> acc]
    ELSE IF s[i] = "\""
    THEN LET r == parse_double(s, i + 1, acc)
         IN IF r.ok THEN parse_word(s, r.i, r.acc) ELSE r
    ELSE IF s[i] = "'"
    THEN LET r == parse_single(s, i + 1, acc)
         IN IF r.ok THEN parse_word(s, r.i, r.acc) ELSE r
    ELSE IF s[i] = "\\"
    THEN IF i + 1 > Len(s) THEN [ok |-> FALSE, i |-> i + 1, acc |-> acc]
         ELSE parse_word(s, i + 2,
                         IF s[i + 1] # "\n" THEN Append(acc, s[i + 1]) ELSE acc)
    ELSE IF s[i] \in {" ", "\t", "\n"} THEN [ok |-> TRUE, i |-> i + 1, acc |-> acc]
    ELSE parse_word(s, i + 1, Append(acc, s[i]))

\* index of the first character of the next word: skips blanks and comments;
\* Len(s) + 1 if the input ends first
RECURSIVE skip_blank(_, _)
skip_blank(s, i) ==
    IF i > Len(s) THEN i
    ELSE IF s[i] \in {" ", "\t", "\n"} THEN skip_blank(s, i + 1)
    ELSE IF s[i] = "#"
    THEN LET eol == {j \in (i + 1)..Len(s) : s[j] = "\n"}
         IN IF eol = {} THEN Len(s) + 1
            ELSE skip_blank(s, (CHOOSE j \in eol : \A k \in eol : j <= k) + 1)
    ELSE i

RECURSIVE shlex_words(_, _, _)
shlex_words(s, i, words) ==
    LET b == skip_blank(s, i)
    IN IF b > Len(s) THEN Some(words)
       ELSE LET w == parse_word(s, b, <<>>)
            IN IF w.ok THEN shlex_words(s, w.i, Append(words, w.acc)) ELSE None

shlex_split(s) == shlex_words(s, 1, <<>>)

\* the field codes with the multi-file code %F among them
FieldCodes_with_F == {<<"%", "U">>, <<"%", "u">>, <<"%", "f">>, <<"%", "F">>}

FieldCodes == {<<"%", "U">>, <<"%", "u">>, <<"%", "f">>}

\* args_from_exec_string that appends the argument when no field code took it
args_from_exec_string_appending(e, a) ==
    LET tokens == shlex_split(e)
    IN IF ~tokens.some THEN None
       ELSE IF tokens.val = <<>> THEN None
       ELSE LET args == [i \in 1..(Len(tokens.val) - 1) |->
                            IF tokens.val[i + 1] \in FieldCodes THEN a
                            ELSE tokens.val[i + 1]]
            IN Some([exec |-> Head(tokens.val),
                     args |-> IF \E i \in DOMAIN args : args[i] = a THEN args
                              ELSE Append(args, a)])

args_from_exec_string(e, a) ==
    LET tokens == shlex_split(e)
    IN IF ~tokens.some THEN None
       ELSE IF tokens.val = <<>> THEN None
       ELSE Some([exec |-> Head(tokens.val),
                  args |-> [i \in 1..(Len(tokens.val) - 1) |->
                               IF tokens.val[i + 1] \in FieldCodes THEN a
                               ELSE tokens.val[i + 1]]])

DesktopEntryHeader == <<"[", "D", "e", "s", "k", "t", "o", "p", " ", "E", "n", "t", "r", "y", "]">>

\* str::split_once('='): the index of the first '=' of the line, 0 if none
IndexOfEq(line) ==
    IF \E i \in 1..Len(line) : line[i] = "="
    THEN CHOOSE i \in 1..Len(line) :
            line[i] = "=" /\ \A j \in 1..(i - 1) : line[j] # "="
    ELSE 0

\* HashMap::insert
MapInsert(map, k, v) ==
    [x \in DOMAIN map \cup {k} |-> IF x = k THEN v ELSE map[x]]

EmptyMap == [x \in {} |-> <<>>]

\* the loop over raw.lines(): ls[i] is the current line, st the ParseStatus
RECURSIVE parse_lines(_, _, _, _)
parse_lines(ls, i, st, map) ==
    IF i > Len(ls) THEN map
    ELSE IF st = "Init"
    THEN IF Trim(ls[i]) = DesktopEntryHeader
         THEN parse_lines(ls, i + 1, "DesktopEntry", map)
         ELSE parse_lines(ls, i + 1, "Init", map)
    ELSE IF StartsWith(Trim(ls[i]), <<"[">>) THEN map
    ELSE LET p == IndexOfEq(ls[i])
         IN IF p = 0 THEN parse_lines(ls, i + 1, st, map)
            ELSE parse_lines(ls, i + 1, st,
                             MapInsert(map, Trim(SubSeq(ls[i], 1, p - 1)),
                                       Trim(Drop(ls[i], p))))

\* parse_desktop_file that does not look for the group header
parse_desktop_file_any_group(file) ==
    IF ~file.ok THEN Err(file.err)
    ELSE Ok(parse_lines(file.val, 1, "DesktopEntry", EmptyMap))

\* file is what std::fs::read_to_string(path) gives: an io::Error or the lines
parse_desktop_file(file) ==
    IF ~file.ok THEN Err(file.err)
    ELSE Ok(parse_lines(file.val, 1, "Init", EmptyMap))

(***************************************************************************)
(* src/main.rs                                                             *)
(***************************************************************************)
NoArgs == [tag |-> "NoArgs"]
XdgQueryError(a, e) == [tag |-> "XdgQueryError", arg |-> a, err |-> e]
DesktopFileParseError(e) == [tag |-> "DesktopFileParseError", err |-> e]
InvalidExecString(e) == [tag |-> "InvalidExecString", exec |-> e]
CouldntDetermineDefault(a, m) == [tag |-> "CouldntDetermineDefault", arg |-> a, mime |-> m]
PromptExec(a, d, m, p, x, as) ==
    [tag |-> "PromptExec", arg |-> a, de |-> d, mime |-> m, appfile_path |-> p,
     to_exec |-> x, args |-> as]

ExecError(e) == [tag |-> "ExecError", err |-> e]

\* a frame without events
NoEvents == [closed |-> FALSE, button |-> "none", k_enter |-> FALSE, k_esc |-> FALSE]

\* the buttons the arm of a status shows
Buttons(st) ==
    IF st.tag \in {"NoArgs", "XdgQueryError"} THEN {"ok"}
    ELSE IF st.tag \in {"CouldntDetermineDefault", "PromptExec"} THEN {"run", "cancel"}
    ELSE {}

\* what one frame can bring: Event::Closed among the polled events, a click on
\* one of the buttons shown, the Enter and Escape keys
EventSet(st) ==
    [closed : BOOLEAN, button : Buttons(st) \cup {"none"},
     k_enter : BOOLEAN, k_esc : BOOLEAN]

\* spawn_command: the call, with the result of Command::spawn
spawn_command(cmd, args, r) == [cmd |-> cmd, args |-> args, res |-> r]

\* the Run and Cancel buttons of the CouldntDetermineDefault and PromptExec
\* arms: the calls of spawn_command, whether rw.close() is called, the status
\* after the arm
run_cancel(st, cmd, args, e, r) ==
    IF e.button = "run" \/ e.k_enter
    THEN IF r.ok
         THEN [spawns |-> <<spawn_command(cmd, args, r)>>, close |-> TRUE, status |-> st]
         ELSE [spawns |-> <<spawn_command(cmd, args, r)>>,
               close |-> e.button = "cancel" \/ e.k_esc,
               status |-> ExecError(r.err)]
    ELSE [spawns |-> <<>>, close |-> e.button = "cancel" \/ e.k_esc, status |-> st]

\* the match on status of the frame's closure; text is fallback_exec_string
\* after the text edit
ui_status(st, text, e, r) ==
    IF st.tag \in {"NoArgs", "XdgQueryError"}
    THEN [spawns |-> <<>>, close |-> e.button = "ok", status |-> st]
    ELSE IF st.tag = "CouldntDetermineDefault"
    THEN run_cancel(st, text, <<st.arg>>, e, r)
    ELSE IF st.tag = "PromptExec"
    THEN run_cancel(st, st.to_exec, st.args, e, r)
    ELSE [spawns |-> <<>>, close |-> FALSE, status |-> st]

SysAppDir == <<"/", "u", "s", "r", "/", "s", "h", "a", "r", "e", "/", "a", "p", "p", "l", "i", "c", "a", "t", "i", "o", "n", "s">>

\* Path::join
PathJoin(base, comp) ==
    IF StartsWith(comp, <<"/">>) THEN comp
    ELSE IF base = <<>> \/ EndsWith(base, <<"/">>) THEN base \o comp
    ELSE base \o <<"/">> \o comp

\* std::fs::read_to_string on a candidate path of the handler id
read_to_string(path) == IF StartsWith(path, SysAppDir) THEN fs.sys ELSE fs.user

ReadCall(path) == [op |-> "read_to_string", path |-> path]
ExecCall(e) == [op |-> "args_from_exec_string", exec |-> e]
QueryCall(op, q) == [op |-> op, cmd |-> q.cmd, res |-> q.res]

\* open_url without the URL fast path
open_url_no_fast_path(a) == [url_mime |-> None, url_path |-> <<>>]

\* open, the URL fast path: url_mime and url_path
open_url(a) ==
    IF IsUtf8(a) /\ Url_parse(a).ok
    THEN [url_mime |-> Some(<<"x", "-", "s", "c", "h", "e", "m", "e", "-", "h", "a", "n", "d", "l", "e", "r", "/">> \o Url_parse(a).val.scheme),
          url_path |-> Url_parse(a).val.path]
    ELSE [url_mime |-> None, url_path |-> <<>>]

\* open_default with Empty treated like any other query error
open_default_empty_is_error(a, m, res) ==
    IF res.ok THEN [ret |-> FALSE, default |-> Some(res.val), status |-> NoArgs]
    ELSE [ret |-> TRUE, default |-> None, status |-> XdgQueryError(a, res.err)]

\* open_default with every query error treated as "nothing registered"
open_default_any_error_is_no_default(a, m, res) ==
    IF res.ok THEN [ret |-> FALSE, default |-> Some(res.val), status |-> NoArgs]
    ELSE [ret |-> TRUE, default |-> None, status |-> CouldntDetermineDefault(a, m)]

\* open, the match on de.query_default(&mime): the Option bound to default, or
\* the Status returned
open_default(a, m, res) ==
    IF res.ok THEN [ret |-> FALSE, default |-> Some(res.val), status |-> NoArgs]
    ELSE IF res.err = "Empty"
    THEN [ret |-> TRUE, default |-> None, status |-> CouldntDetermineDefault(a, m)]
    ELSE [ret |-> TRUE, default |-> None, status |-> XdgQueryError(a, res.err)]

\* locate with the user directory tried first
locate_user_first(def) ==
    LET p1 == PathJoin(SysAppDir, def)
        r1 == parse_desktop_file(read_to_string(p1))
    IN IF ~data_dir.some
       THEN [panic |-> TRUE, ok |-> FALSE, log |-> <<>>]
       ELSE LET p2 == PathJoin(PathJoin(data_dir.val, <<"a", "p", "p", "l", "i", "c", "a", "t", "i", "o", "n", "s">>), def)
                r2 == parse_desktop_file(read_to_string(p2))
            IN IF r2.ok
               THEN [panic |-> FALSE, ok |-> TRUE, map |-> r2.val, appfile_path |-> p2,
                     log |-> <<ReadCall(p2)>>]
               ELSE IF r1.ok
               THEN [panic |-> FALSE, ok |-> TRUE, map |-> r1.val, appfile_path |-> p1,
                     log |-> <<ReadCall(p2), ReadCall(p1)>>]
               ELSE [panic |-> FALSE, ok |-> FALSE, err |-> r1.err,
                     log |-> <<ReadCall(p2), ReadCall(p1)>>]

\* open, the two candidates of a handler id ending with .desktop
locate(def) ==
    LET p1 == PathJoin(SysAppDir, def)
        r1 == parse_desktop_file(read_to_string(p1))
    IN IF r1.ok
       THEN [panic |-> FALSE, ok |-> TRUE, map |-> r1.val, appfile_path |-> p1,
             log |-> <<ReadCall(p1)>>]
       ELSE IF ~data_dir.some
       THEN [panic |-> TRUE, ok |-> FALSE, log |-> <<ReadCall(p1)>>]
       ELSE LET p2 == PathJoin(PathJoin(data_dir.val, <<"a", "p", "p", "l", "i", "c", "a", "t", "i", "o", "n", "s">>), def)
                r2 == parse_desktop_file(read_to_string(p2))
            IN IF r2.ok
               THEN [panic |-> FALSE, ok |-> TRUE, map |-> r2.val, appfile_path |-> p2,
                     log |-> <<ReadCall(p1), ReadCall(p2)>>]
               ELSE [panic |-> FALSE, ok |-> FALSE, err |-> r2.err,
                     log |-> <<ReadCall(p1), ReadCall(p2)>>]

\* open_exec that runs the handler id when the Exec string cannot be tokenized
open_exec_fallback(a, d, m, def, loc) ==
    IF <<"E", "x", "e", "c">> \in DOMAIN loc.map
       /\ args_from_exec_string(loc.map[<<"E", "x", "e", "c">>], a).some
    THEN [panic |-> FALSE,
          status |-> PromptExec(a, d, m, loc.appfile_path,
                                args_from_exec_string(loc.map[<<"E", "x", "e", "c">>], a).val.exec,
                                args_from_exec_string(loc.map[<<"E", "x", "e", "c">>], a).val.args),
          log |-> Append(loc.log, ExecCall(loc.map[<<"E", "x", "e", "c">>]))]
    ELSE [panic |-> FALSE,
          status |-> PromptExec(a, d, m, loc.appfile_path, def, <<a>>),
          log |-> IF <<"E", "x", "e", "c">> \in DOMAIN loc.map
                  THEN Append(loc.log, ExecCall(loc.map[<<"E", "x", "e", "c">>]))
                  ELSE loc.log]

\* open_exec that treats a missing Exec key as an invalid Exec string
open_exec_requires_exec(a, d, m, def, loc) ==
    IF <<"E", "x", "e", "c">> \in DOMAIN loc.map
       /\ args_from_exec_string(loc.map[<<"E", "x", "e", "c">>], a).some
    THEN [panic |-> FALSE,
          status |-> PromptExec(a, d, m, loc.appfile_path,
                                args_from_exec_string(loc.map[<<"E", "x", "e", "c">>], a).val.exec,
                                args_from_exec_string(loc.map[<<"E", "x", "e", "c">>], a).val.args),
          log |-> Append(loc.log, ExecCall(loc.map[<<"E", "x", "e", "c">>]))]
    ELSE IF <<"E", "x", "e", "c">> \in DOMAIN loc.map
    THEN [panic |-> FALSE, status |-> InvalidExecString(loc.map[<<"E", "x", "e", "c">>]),
          log |-> Append(loc.log, ExecCall(loc.map[<<"E", "x", "e", "c">>]))]
    ELSE [panic |-> FALSE, status |-> InvalidExecString(<<>>),
          log |-> Append(loc.log, ExecCall(<<>>))]

\* open, the Exec key of the located desktop map
open_exec(a, d, m, def, loc) ==
    IF <<"E", "x", "e", "c">> \in DOMAIN loc.map
    THEN LET e == loc.map[<<"E", "x", "e", "c">>]
             tup == args_from_exec_string(e, a)
         IN IF tup.some
            THEN [panic |-> FALSE,
                  status |-> PromptExec(a, d, m, loc.appfile_path, tup.val.exec,
                                        tup.val.args),
                  log |-> Append(loc.log, ExecCall(e))]
            ELSE [panic |-> FALSE, status |-> InvalidExecString(e),
                  log |-> Append(loc.log, ExecCall(e))]
    ELSE [panic |-> FALSE,
          status |-> PromptExec(a, d, m, loc.appfile_path, def, <<a>>),
          log |-> loc.log]

\* open_entry that looks every handler id up as a desktop file
open_entry_always_desktop(a, d, m, dflt) ==
    IF ~dflt.some
    THEN [panic |-> FALSE, status |-> CouldntDetermineDefault(a, m), log |-> <<>>]
    ELSE LET loc == locate(dflt.val)
         IN IF loc.panic THEN [panic |-> TRUE, status |-> NoArgs, log |-> loc.log]
            ELSE IF ~loc.ok
            THEN [panic |-> FALSE, status |-> DesktopFileParseError(loc.err),
                  log |-> loc.log]
            ELSE open_exec(a, d, m, dflt.val, loc)

\* open, the match on default
open_entry(a, d, m, dflt) ==
    IF ~dflt.some
    THEN [panic |-> FALSE, status |-> CouldntDetermineDefault(a, m), log |-> <<>>]
    ELSE IF ~EndsWith(dflt.val, <<".", "d", "e", "s", "k", "t", "o", "p">>)
    THEN [panic |-> FALSE, status |-> PromptExec(a, d, m, <<>>, dflt.val, <<a>>),
          log |-> <<>>]
    ELSE LET loc == locate(dflt.val)
         IN IF loc.panic THEN [panic |-> TRUE, status |-> NoArgs, log |-> loc.log]
            ELSE IF ~loc.ok
            THEN [panic |-> FALSE, status |-> DesktopFileParseError(loc.err),
                  log |-> loc.log]
            ELSE open_exec(a, d, m, dflt.val, loc)

(***************************************************************************)
(* The inputs of a run.                                                    *)
(***************************************************************************)
ArgSet ==
    {<<"/", "t", "/", "a", " ", "b">>, <<"a", ".", "e", "x", "e">>, <<"/", InvalidByte>>, <<"1", ":", "x">>, <<"h", "t", "t", "p", ":", "/", "/">>,
     <<"h", "t", "t", "p", ":", "/", "/", "h", "/", "p">>, <<"H", "T", "T", "P", ":", "/", "/", "h">>, <<"f", "i", "l", "e", ":", "/", "/", "/", "a", " ", "b">>, <<"m", "a", "i", "l", "t", "o", ":", "x">>}

DeSet == {None, Some("Lxqt"), Some("Gnome")}

DataDirSet == {None, Some(<<"/", "h", "/", ".", "l", "o", "c", "a", "l", "/", "s", "h", "a", "r", "e">>)}

PeMime == <<"a", "p", "p", "l", "i", "c", "a", "t", "i", "o", "n", "/", "v", "n", "d", ".", "m", "i", "c", "r", "o", "s", "o", "f", "t", ".", "p", "o", "r", "t", "a", "b", "l", "e", "-", "e", "x", "e", "c", "u", "t", "a", "b", "l", "e">>

\* what Command::output() gives: the command cannot be run, or its stdout
OutputSet ==
    {Err("NotFound"), Ok(<<>>), Ok(<<" ", "\n">>), Ok(<<InvalidByte>>),
     Ok(<<"t", "e", "x", "t", "/", "p", "l", "a", "i", "n", "\n">>), Ok(<<" ">> \o PeMime \o <<"\n">>),
     Ok(<<"x", "-", "s", "c", "h", "e", "m", "e", "-", "h", "a", "n", "d", "l", "e", "r", "/", "f", "i", "l", "e", "\n">>), Ok(<<"v", "i", "m", "\n">>), Ok(<<" ", "a", ".", "d", "e", "s", "k", "t", "o", "p", "\n">>)}

FileSet ==
    {Err("NotFound"), Err("InvalidData"),
     Ok(<<DesktopEntryHeader, <<"E", "x", "e", "c", "=", "a", "p", "p", " ", "\"", "%", "f", "\"", " ", "-", "-", "f", "l", "a", "g">>>>),
     Ok(<<<<"[", "O", "t", "h", "e", "r", "]">>, <<"E", "x", "e", "c", "=", "x">>>>),
     Ok(<<DesktopEntryHeader, <<"N", "a", "m", "e", "=", "n">>>>),
     Ok(<<DesktopEntryHeader, <<"E", "x", "e", "c", "=", "a", "p", "p", " ", "\"", "u", "n", "t", "e", "r", "m", "i", "n", "a", "t", "e", "d">>>>),
     Ok(<<DesktopEntryHeader, <<"E", "x", "e", "c", "=">>>>),
     Ok(<<DesktopEntryHeader, <<"E", "x", "e", "c", "=", "a", "p", "p", " ", "-", "-", "n", "e", "w", " ", "'", "%", "x", "'">>>>),
     Ok(<<<<" ", "[", "D", "e", "s", "k", "t", "o", "p", " ", "E", "n", "t", "r", "y", "]", " ">>, <<"E", "x", "e", "c", " ", "=", " ", "v", "i", "m", " ", "%", "U">>, <<"[", "D", "e", "s", "k", "t", "o", "p", " ", "A", "c", "t", "i", "o", "n", " ", "x", "]">>,
          <<"E", "x", "e", "c", "=", "o", "t", "h", "e", "r">>>>)}

Init ==
    /\ pc = "main"
    /\ arg \in {None} \cup {Some(a) : a \in ArgSet}
    /\ de \in DeSet
    /\ data_dir \in DataDirSet
    /\ fs \in [sys : FileSet, user : FileSet]
    /\ data_dir = None => fs.user = Err("NotFound")
    /\ url_mime = None
    /\ url_path = <<>>
    /\ mime = <<>>
    /\ default = None
    /\ status = NoArgs
    /\ log = <<>>
    /\ rw_open = TRUE
    /\ fallback_exec_string = <<>>
    /\ spawns = <<>>
    /\ ev = NoEvents
    /\ lines = <<>>
    /\ exec = <<>>
    /\ stdout = None
    /\ result = None

\* main: status = NoArgs unless an argument was given; then open() starts
Main ==
    /\ pc = "main"
    /\ IF ~arg.some
       THEN pc' = "event_loop" /\ UNCHANGED <<url_mime, url_path>>
       ELSE /\ pc' = "open_mime"
            /\ url_mime' = open_url(arg.val).url_mime
            /\ url_path' = open_url(arg.val).url_path
    /\ UNCHANGED <<gui, stdout>>
    /\ UNCHANGED <<arg, de, data_dir, fs, mime, default, status, log, lines, exec, result>>

\* OpenMime that asks again when the query fails
OpenMime_retry ==
    /\ pc = "open_mime"
    /\ IF url_mime.some
       THEN mime' = url_mime.val /\ pc' = "open_file" /\ UNCHANGED <<status, log>>
       ELSE \E output \in OutputSet :
               LET q == query_mime(de, arg.val, output)
               IN /\ log' = Append(log, QueryCall("query_mime", q))
                  /\ IF q.panic
                     THEN pc' = "panicked" /\ UNCHANGED <<mime, status>>
                     ELSE IF q.res.ok
                     THEN mime' = q.res.val /\ pc' = "open_file"
                          /\ UNCHANGED status
                     ELSE UNCHANGED <<pc, mime, status>>
    /\ UNCHANGED <<gui, stdout>>
    /\ UNCHANGED <<arg, de, data_dir, fs, url_mime, url_path, default, lines, exec, result>>

\* open: let mut mime = ...
OpenMime ==
    /\ pc = "open_mime"
    /\ IF url_mime.some
       THEN mime' = url_mime.val /\ pc' = "open_file" /\ UNCHANGED <<status, log>>
       ELSE \E output \in OutputSet :
               LET q == query_mime(de, arg.val, output)
               IN /\ log' = Append(log, QueryCall("query_mime", q))
                  /\ IF q.panic
                     THEN pc' = "panicked" /\ UNCHANGED <<mime, status>>
                     ELSE IF q.res.ok
                     THEN mime' = q.res.val /\ pc' = "open_file"
                          /\ UNCHANGED status
                     ELSE /\ status' = XdgQueryError(arg.val, q.res.err)
                          /\ pc' = "event_loop"
                          /\ UNCHANGED mime
    /\ UNCHANGED <<gui, stdout>>
    /\ UNCHANGED <<arg, de, data_dir, fs, url_mime, url_path, default, lines, exec, result>>

\* OpenFile that keeps the synthesized MIME type when the query of the path fails
OpenFile_ignore_error ==
    /\ pc = "open_file"
    /\ IF mime = <<"x", "-", "s", "c", "h", "e", "m", "e", "-", "h", "a", "n", "d", "l", "e", "r", "/", "f", "i", "l", "e">>
       THEN \E output \in OutputSet :
               LET q == query_mime(de, url_path, output)
               IN /\ log' = Append(log, QueryCall("query_mime", q))
                  /\ IF q.panic
                     THEN pc' = "panicked" /\ UNCHANGED <<mime, status>>
                     ELSE /\ mime' = IF q.res.ok THEN q.res.val ELSE mime
                          /\ pc' = "open_default"
                          /\ UNCHANGED status
       ELSE pc' = "open_default" /\ UNCHANGED <<mime, status, log>>
    /\ UNCHANGED <<gui, stdout>>
    /\ UNCHANGED <<arg, de, data_dir, fs, url_mime, url_path, default, lines, exec, result>>

\* open: special handling for file:// URLs
OpenFile ==
    /\ pc = "open_file"
    /\ IF mime = <<"x", "-", "s", "c", "h", "e", "m", "e", "-", "h", "a", "n", "d", "l", "e", "r", "/", "f", "i", "l", "e">>
       THEN \E output \in OutputSet :
               LET q == query_mime(de, url_path, output)
               IN /\ log' = Append(log, QueryCall("query_mime", q))
                  /\ IF q.panic
                     THEN pc' = "panicked" /\ UNCHANGED <<mime, status>>
                     ELSE IF q.res.ok
                     THEN mime' = q.res.val /\ pc' = "open_default"
                          /\ UNCHANGED status
                     ELSE /\ status' = XdgQueryError(arg.val, q.res.err)
                          /\ pc' = "event_loop"
                          /\ UNCHANGED mime
       ELSE pc' = "open_default" /\ UNCHANGED <<mime, status, log>>
    /\ UNCHANGED <<gui, stdout>>
    /\ UNCHANGED <<arg, de, data_dir, fs, url_mime, url_path, default, lines, exec, result>>

\* open: let default = match de.query_default(&mime)
OpenDefault ==
    /\ pc = "open_default"
    /\ \E output \in OutputSet :
          LET q == query_default(de, mime, output)
              r == open_default(arg.val, mime, q.res)
          IN /\ log' = Append(log, QueryCall("query_default", q))
             /\ IF q.panic
                THEN pc' = "panicked" /\ UNCHANGED <<default, status>>
                ELSE IF r.ret
                THEN status' = r.status /\ pc' = "event_loop" /\ UNCHANGED default
                ELSE default' = r.default /\ pc' = "open_entry" /\ UNCHANGED status
    /\ UNCHANGED <<gui, stdout>>
    /\ UNCHANGED <<arg, de, data_dir, fs, url_mime, url_path, mime, lines, exec, result>>

\* open: match default
OpenEntry ==
    /\ pc = "open_entry"
    /\ LET r == open_entry(arg.val, de, mime, default)
       IN /\ log' = log \o r.log
          /\ IF r.panic
             THEN pc' = "panicked" /\ UNCHANGED status
             ELSE status' = r.status /\ pc' = "event_loop"
    /\ UNCHANGED <<gui, stdout>>
    /\ UNCHANGED <<arg, de, data_dir, fs, url_mime, url_path, mime, default, lines, exec,
                   result>>

Next == Main \/ OpenMime \/ OpenFile \/ OpenDefault \/ OpenEntry

Spec == Init /\ [][Next]_vars

(***************************************************************************)
(* main: the event loop that shows the status.                             *)
(***************************************************************************)
MaxSpawns == 2

\* what the user types into the text edit of the fallback executable
TextSet == {<<>>, <<"v", "i", "m">>}

\* the results of Command::spawn: no program has the empty name
SpawnResults(cmd) ==
    IF cmd = <<>> THEN {Err("NotFound")} ELSE {Ok("child"), Err("NotFound")}

\* main: while rw.is_open(), the polling of the events of one frame
PollEvents ==
    /\ pc = "event_loop"
    /\ rw_open
    /\ \E e \in EventSet(status) :
          /\ (e.button = "run" \/ e.k_enter) => Len(spawns) < MaxSpawns
          /\ ev' = e
          /\ rw_open' = ~e.closed
    /\ pc' = "ui"
    /\ UNCHANGED <<fallback_exec_string, spawns, stdout>>
    /\ UNCHANGED <<arg, de, data_dir, fs, url_mime, url_path, mime, default, status, log,
                   lines, exec, result>>

\* main: the closure of sf_egui.run for one frame: the arm of the status, then
\* the window is recreated when the content has outgrown it
RunUi ==
    /\ pc = "ui"
    /\ \E text \in (IF status.tag = "CouldntDetermineDefault" THEN TextSet
                    ELSE {fallback_exec_string}),
          grows \in BOOLEAN :
          \E r \in SpawnResults(IF status.tag = "PromptExec" THEN status.to_exec
                                ELSE text) :
          LET u == ui_status(status, text, ev, r)
          IN /\ fallback_exec_string' = text
             /\ spawns' = spawns \o u.spawns
             /\ status' = u.status
             /\ rw_open' = IF grows THEN TRUE ELSE (rw_open /\ ~u.close)
    /\ ev' = NoEvents
    /\ pc' = "event_loop"
    /\ UNCHANGED stdout
    /\ UNCHANGED <<arg, de, data_dir, fs, url_mime, url_path, mime, default, log,
                   lines, exec, result>>

\* main: the loop ends when the window is closed
Exit ==
    /\ pc = "event_loop"
    /\ ~rw_open
    /\ pc' = "exited"
    /\ UNCHANGED <<gui, stdout>>
    /\ UNCHANGED <<arg, de, data_dir, fs, url_mime, url_path, mime, default, status, log,
                   lines, exec, result>>

InitMain ==
    /\ Init
    /\ arg \in {None, Some(<<"/", "t", "/", "a", " ", "b">>), Some(<<"m", "a", "i", "l", "t", "o", ":", "x">>)}
    /\ de = None
    /\ data_dir = Some(<<"/", "h", "/", ".", "l", "o", "c", "a", "l", "/", "s", "h", "a", "r", "e">>)
    /\ fs.sys \in {Err("NotFound"), Ok(<<DesktopEntryHeader, <<"E", "x", "e", "c", "=", "a", "p", "p", " ", "\"", "%", "f", "\"", " ", "-", "-", "f", "l", "a", "g">>>>)}
    /\ fs.user \in {Err("NotFound"), Ok(<<DesktopEntryHeader, <<"N", "a", "m", "e", "=", "n">>>>)}

NextMain == Next \/ PollEvents \/ RunUi \/ Exit

SpecMain == InitMain /\ [][NextMain]_vars

(***************************************************************************)
(* Properties of the pipeline.                                             *)
(***************************************************************************)
\* the argument is text that parses as a URL
IsUrl == arg.some /\ IsUtf8(arg.val) /\ Url_parse(arg.val).ok
Scheme == Url_parse(arg.val).val.scheme

\* positions in the history of the calls of each kind
MimeQueries == {i \in DOMAIN log : log[i].op = "query_mime"}
DefaultQueries == {i \in DOMAIN log : log[i].op = "query_default"}
Reads == {i \in DOMAIN log : log[i].op = "read_to_string"}
ExecCalls == {i \in DOMAIN log : log[i].op = "args_from_exec_string"}

\* the argument or MIME type a query was made for
QueryInput(i) == log[i].cmd[Len(log[i].cmd)]

\* open() has returned a Status to main
Returned == pc = "event_loop" /\ arg.some

Min(S) == CHOOSE i \in S : \A j \in S : i <= j
Max(S) == CHOOSE i \in S : \A j \in S : i >= j

C2_WineFallback ==
    \A j \in DefaultQueries :
        (Returned /\ QueryInput(j) = PeMime /\ log[j].res = Err("Empty")) =>
            /\ status.tag = "PromptExec"
            /\ status.to_exec = <<"w", "i", "n", "e">>
            /\ status.args = <<arg.val>>
            /\ Reads = {}

\* C3: when the default-handler query answers Empty for a MIME type with no
\* fallback entry (any but the portable-executable type), open() has returned
\* CouldntDetermineDefault with the MIME type queried and the argument as given,
\* and has read no .desktop file and tokenized nothing.
C3_NoDefault ==
    \A j \in DefaultQueries :
        (QueryInput(j) # PeMime /\ log[j].res = Err("Empty")) =>
            /\ pc = "event_loop"
            /\ status = CouldntDetermineDefault(arg.val, QueryInput(j))
            /\ Reads = {}
            /\ ExecCalls = {}

C3_Witness ==
    /\ Returned
    /\ \E j \in DefaultQueries :
          QueryInput(j) = <<"t", "e", "x", "t", "/", "p", "l", "a", "i", "n">> /\ log[j].res = Err("Empty")
    /\ status.tag = "CouldntDetermineDefault"

\* the default-handler query answered a handler id ending with .desktop and
\* open() is past the lookup of its desktop file
DesktopHandler == default.some /\ EndsWith(default.val, <<".", "d", "e", "s", "k", "t", "o", "p">>)
PastEntry == pc \in {"event_loop", "panicked"}

\* the candidate paths of the handler id
SysCandidate == <<"/", "u", "s", "r", "/", "s", "h", "a", "r", "e", "/", "a", "p", "p", "l", "i", "c", "a", "t", "i", "o", "n", "s", "/">> \o default.val
UserCandidate == data_dir.val \o <<"/", "a", "p", "p", "l", "i", "c", "a", "t", "i", "o", "n", "s", "/">> \o default.val

\* the desktop file the lookup ends on: the system-wide one if it can be read,
\* the one of the user directory otherwise
UsedFile == IF fs.sys.ok THEN fs.sys ELSE fs.user
UsedPath == IF fs.sys.ok THEN SysCandidate ELSE UserCandidate
Located == DesktopHandler /\ Returned /\ UsedFile.ok

\* the value of the Exec key of the file the lookup ends on
HasExec == <<"E", "x", "e", "c">> \in DOMAIN parse_desktop_file(UsedFile).val
ExecValue == parse_desktop_file(UsedFile).val[<<"E", "x", "e", "c">>]
Untokenizable(e) == ~shlex_split(e).some \/ shlex_split(e).val = <<>>

\* C6: when the Exec value of the located desktop entry cannot be tokenized, or
\* tokenizes to no token, open() returns InvalidExecString with that Exec value
\* unchanged: not PromptExec, and not the handler id as executable.
C6_InvalidExec ==
    /\ (Located /\ HasExec /\ Untokenizable(ExecValue)) =>
          /\ status = InvalidExecString(ExecValue)
          /\ \A i \in ExecCalls : log[i].exec = ExecValue
    /\ (Located /\ UsedFile = Ok(<<DesktopEntryHeader, <<"E", "x", "e", "c", "=", "a", "p", "p", " ", "\"", "u", "n", "t", "e", "r", "m", "i", "n", "a", "t", "e", "d">>>>)) =>
          status = InvalidExecString(<<"a", "p", "p", " ", "\"", "u", "n", "t", "e", "r", "m", "i", "n", "a", "t", "e", "d">>)
    /\ (Located /\ UsedFile = Ok(<<DesktopEntryHeader, <<"E", "x", "e", "c", "=">>>>)) =>
          status = InvalidExecString(<<>>)

C6_Witness ==
    /\ Located
    /\ ~fs.sys.ok
    /\ fs.user = Ok(<<DesktopEntryHeader, <<"E", "x", "e", "c", "=", "a", "p", "p", " ", "\"", "u", "n", "t", "e", "r", "m", "i", "n", "a", "t", "e", "d">>>>)
    /\ status.tag = "InvalidExecString"

\* C7: when the handler id ends with .desktop and the file can be read in
\* neither directory, open() returns DesktopFileParseError with the error of
\* the user-directory candidate, the last one tried.
C7_ParseFailure ==
    (DesktopHandler /\ PastEntry /\ ~fs.sys.ok /\ ~fs.user.ok) =>
        /\ pc = "event_loop"
        /\ status = DesktopFileParseError(fs.user.err)

\* C8: the lookup reads /usr/share/applications/<id> first and
\* <data dir>/applications/<id> second, the second only if the first could not
\* be read; the map and the path PromptExec reports are those of the candidate
\* that was parsed.
C8_LookupOrder ==
    (DesktopHandler /\ PastEntry) =>
        /\ Cardinality(Reads) \in {1, 2}
        /\ \A i \in Reads :
              log[i].path = IF i = Min(Reads) THEN SysCandidate ELSE UserCandidate
        /\ Cardinality(Reads) = 2 => ~fs.sys.ok
        /\ (Returned /\ status.tag = "PromptExec") =>
              /\ UsedFile.ok
              /\ status.appfile_path = UsedPath
              /\ log[Max(Reads)].path = UsedPath
              /\ IF HasExec
                 THEN status.to_exec = shlex_split(ExecValue).val[1]
                 ELSE status.to_exec = default.val

\* both files can be read and differ: the system-wide one is used
C8_Witness ==
    /\ Located
    /\ fs.sys = Ok(<<DesktopEntryHeader, <<"E", "x", "e", "c", "=", "a", "p", "p", " ", "\"", "%", "f", "\"", " ", "-", "-", "f", "l", "a", "g">>>>)
    /\ fs.user.ok /\ fs.user # fs.sys
    /\ Cardinality(Reads) = 1
    /\ status.tag = "PromptExec"
    /\ status.appfile_path = <<"/", "u", "s", "r", "/", "s", "h", "a", "r", "e", "/", "a", "p", "p", "l", "i", "c", "a", "t", "i", "o", "n", "s", "/", "a", ".", "d", "e", "s", "k", "t", "o", "p">>
    /\ status.to_exec = <<"a", "p", "p">>

\* C9: when the desktop file is located and its map has no Exec key, open()
\* returns PromptExec with the handler id as executable and the raw argument
\* as the only argument, and the tokenizer is not run.
C9_NoExecKey ==
    (Located /\ ~HasExec) =>
        /\ status = PromptExec(arg.val, de, mime, UsedPath, default.val, <<arg.val>>)
        /\ ExecCalls = {}

\* the file has no [Desktop Entry] header: its Exec line is not in the map
C9_Witness ==
    /\ Located
    /\ fs.sys = Ok(<<<<"[", "O", "t", "h", "e", "r", "]">>, <<"E", "x", "e", "c", "=", "x">>>>)
    /\ status.tag = "PromptExec"
    /\ status.to_exec = <<"a", ".", "d", "e", "s", "k", "t", "o", "p">>
    /\ status.args = <<arg.val>>

\* C10: when the default-handler query answers an id that does not end with
\* .desktop, open() returns PromptExec with that id as executable, the raw
\* argument as the only argument and an empty desktop file path; no desktop
\* file is read and the tokenizer is not run.
C10_BareCommand ==
    (default.some /\ ~EndsWith(default.val, <<".", "d", "e", "s", "k", "t", "o", "p">>) /\ PastEntry) =>
        /\ pc = "event_loop"
        /\ status = PromptExec(arg.val, de, mime, <<>>, default.val, <<arg.val>>)
        /\ Reads = {}
        /\ ExecCalls = {}

C10_Witness ==
    /\ Returned
    /\ default = Some(<<"v", "i", "m">>)
    /\ status.tag = "PromptExec"
    /\ status.to_exec = <<"v", "i", "m">>
    /\ status.appfile_path = <<>>

\* C12: both queries are routed by the desktop environment in the same way:
\* Lxqt to qtxdg-mat, every other identity (None too) to xdg-mime; the queries
\* of one run never use different backends.
C12_Routing ==
    /\ \A i \in MimeQueries :
          log[i].cmd = IF de = Some("Lxqt")
                       THEN <<"qtxdg-mat", "mimetype", QueryInput(i)>>
                       ELSE <<"xdg-mime", "query", "filetype", QueryInput(i)>>
    /\ \A j \in DefaultQueries :
          log[j].cmd = IF de = Some("Lxqt")
                       THEN <<"qtxdg-mat", "defapp", QueryInput(j)>>
                       ELSE <<"xdg-mime", "query", "default", QueryInput(j)>>
    /\ \A i, j \in MimeQueries \cup DefaultQueries : log[i].cmd[1] = log[j].cmd[1]

C12_Witness ==
    /\ Returned
    /\ de = Some("Lxqt")
    /\ \E i \in MimeQueries : log[i].cmd[1] = "qtxdg-mat"
    /\ \E j \in DefaultQueries : log[j].cmd[1] = "qtxdg-mat"

\* C13: when a query_mime fails with Empty or InvalidUtf8, open() has returned
\* XdgQueryError with the argument as given and that error, and that query is
\* the last external call of the run: no default-handler query, no desktop file
\* read and no tokenization.
C13_MimeQueryFailure ==
    \A i \in MimeQueries :
        log[i].res \in {Err("Empty"), Err("InvalidUtf8")} =>
            /\ pc = "event_loop"
            /\ status = XdgQueryError(arg.val, log[i].res.err)
            /\ i = Len(log)
            /\ DefaultQueries = {}
            /\ Reads = {}
            /\ ExecCalls = {}

\* the query of the path of a file:// URL fails
C13_Witness ==
    /\ Returned
    /\ IsUrl /\ Scheme = <<"f", "i", "l", "e">>
    /\ \E i \in MimeQueries : log[i].res = Err("InvalidUtf8")
    /\ status.tag = "XdgQueryError"

\* C14: at the default-handler query InvalidUtf8 ends the run with
\* XdgQueryError, never with CouldntDetermineDefault, and Empty never ends it
\* with XdgQueryError; in both cases no desktop file is read.
C14_DefaultQueryErrors ==
    \A j \in DefaultQueries :
        /\ log[j].res = Err("InvalidUtf8") =>
              /\ pc = "event_loop"
              /\ status = XdgQueryError(arg.val, "InvalidUtf8")
              /\ Reads = {}
        /\ log[j].res = Err("Empty") =>
              /\ pc = "event_loop"
              /\ status.tag # "XdgQueryError"
              /\ Reads = {}

C14_Witness ==
    /\ Returned
    /\ \E j \in DefaultQueries : log[j].res = Err("InvalidUtf8")
    /\ \A i \in MimeQueries : log[i].res.ok
    /\ status.tag = "XdgQueryError"

\* C17, as stated: for an argument that is not valid text or does not parse as
\* a URL, the first external call is query_mime on the argument as given, and
\* when it succeeds the MIME type of the default-handler query, and the one the
\* outcome reports, is the returned string, whatever that string is.
C17_QueriedMimeUsed ==
    (arg.some /\ ~IsUrl) =>
        /\ pc \notin {"main", "open_mime"} =>
              /\ log # <<>>
              /\ log[1].op = "query_mime"
              /\ QueryInput(1) = arg.val
        /\ (log # <<>> /\ log[1].res.ok) =>
              /\ \A j \in DefaultQueries : QueryInput(j) = log[1].res.val
              /\ (Returned /\ status.tag \in {"PromptExec", "CouldntDetermineDefault"}) =>
                    status.mime = log[1].res.val

Queries == MimeQueries \cup DefaultQueries

\* C19: no query is asked again after it failed, and the queries of a run are
\* bounded: at most one default-handler query, made for the MIME type that was
\* determined before it (from the URL scheme or by a successful query_mime),
\* and at most three queries in all.
C19_BoundedQueries ==
    /\ \A i \in Queries : ~log[i].res.ok => i = Len(log)
    /\ Cardinality(DefaultQueries) <= 1
    /\ \A j \in DefaultQueries :
          /\ QueryInput(j) = mime
          /\ \A i \in MimeQueries : i < j
          /\ url_mime.some \/ \E i \in MimeQueries : log[i].res = Ok(mime)
    /\ Cardinality(Queries) <= 3

\* a run with three queries
C19_Witness ==
    /\ Returned
    /\ Cardinality(MimeQueries) = 2
    /\ Cardinality(DefaultQueries) = 1

\* C20: the MIME type of a PromptExec or CouldntDetermineDefault outcome is not
\* empty: it is x-scheme-handler/<scheme> of the URL, or the valid text a
\* query_mime answered, without white space at either end.
C20_MimeNonEmpty ==
    (Returned /\ status.tag \in {"PromptExec", "CouldntDetermineDefault"}) =>
        /\ status.mime # <<>>
        /\ \/ IsUrl /\ status.mime = <<"x", "-", "s", "c", "h", "e", "m", "e", "-", "h", "a", "n", "d", "l", "e", "r", "/">> \o Scheme
           \/ /\ \E i \in MimeQueries : log[i].res = Ok(status.mime)
              /\ IsUtf8(status.mime)
              /\ status.mime[1] \notin WhiteSpace
              /\ status.mime[Len(status.mime)] \notin WhiteSpace

\* the answer of query_mime was padded with white space
C20_Witness ==
    /\ Returned
    /\ status.tag = "CouldntDetermineDefault"
    /\ ~IsUrl
    /\ status.mime = PeMime
    /\ \E i \in MimeQueries : log[i].res = Ok(PeMime)

Tokens == shlex_split(ExecValue).val

\* C18: when the Exec value of the located desktop entry tokenizes and none of
\* its tokens is %U, %u or %f, the executable is the first token and the
\* argument list is the tokens after it, nothing appended: the argument of the
\* run is not among them.
C18_NoImplicitArgument ==
    (/\ Located /\ HasExec /\ ~Untokenizable(ExecValue)
     /\ \A k \in DOMAIN Tokens : Tokens[k] \notin FieldCodes) =>
        /\ status = PromptExec(arg.val, de, mime, UsedPath, Head(Tokens), Tail(Tokens))
        /\ (\A k \in DOMAIN Tokens : Tokens[k] # arg.val) =>
              \A k \in DOMAIN status.args : status.args[k] # arg.val

C18_Witness ==
    /\ Located
    /\ UsedFile = Ok(<<DesktopEntryHeader, <<"E", "x", "e", "c", "=", "a", "p", "p", " ", "-", "-", "n", "e", "w", " ", "'", "%", "x", "'">>>>)
    /\ status.tag = "PromptExec"
    /\ status.to_exec = <<"a", "p", "p">>
    /\ status.args = <<<<"-", "-", "n", "e", "w">>, <<"%", "x">>>>

\* a frame brought a request to leave: Event::Closed, Cancel or Escape
LeaveRequested == ev.closed \/ ev.button = "cancel" \/ ev.k_esc

\* what C16 says of one step
ConfirmedStep ==
    /\ (spawns' # spawns /\ status.tag = "PromptExec") =>
          (pc = "ui" /\ (ev.button = "run" \/ ev.k_enter))
    /\ (pc = "ui" /\ status.tag = "PromptExec" /\ LeaveRequested) =>
          (spawns' = spawns /\ ~rw_open')

\* C16, as stated: spawn_command is not called while open() computes the
\* status; from PromptExec it is called only in a frame where Run was clicked
\* or Enter pressed; and a frame of PromptExec that brings Cancel, Escape or
\* the closing of the window makes no call and leaves the window closed, which
\* ends the loop.
C16_ConfirmedLaunch ==
    [](pc \notin {"event_loop", "ui", "exited"} => spawns = <<>>) /\ [][ConfirmedStep]_vars

\* the statuses whose arm has no Run button
FinalTags ==
    {"ExecError", "NoArgs", "XdgQueryError", "DesktopFileParseError", "InvalidExecString"}

InLoop == pc \in {"event_loop", "ui", "exited"}

\* the call a step adds to the history
LastSpawn == spawns'[Len(spawns')]

\* a step that calls spawn_command: from PromptExec or CouldntDetermineDefault
\* only, the latter with the typed executable and the argument alone
SpawnStep ==
    spawns' # spawns =>
        /\ pc = "ui"
        /\ Len(spawns') = Len(spawns) + 1
        /\ status.tag \in {"PromptExec", "CouldntDetermineDefault"}
        /\ status.tag = "CouldntDetermineDefault" =>
              /\ LastSpawn.cmd = fallback_exec_string'
              /\ LastSpawn.args = <<arg.val>>
        /\ status.tag = "PromptExec" =>
              /\ LastSpawn.cmd = status.to_exec
              /\ LastSpawn.args = status.args

\* a failed spawn moves the status to ExecError
FailedSpawnStep ==
    (spawns' # spawns /\ ~LastSpawn.res.ok) => status' = ExecError(LastSpawn.res.err)

\* a successful spawn closes the window, which ends the loop
SuccessfulSpawnStep ==
    (spawns' # spawns /\ LastSpawn.res.ok) => ~rw_open'

\* from a status without Run button nothing is spawned and the status stays
FinalStep ==
    (InLoop /\ status.tag \in FinalTags) => (spawns' = spawns /\ status' = status)

\* C21, as stated: a run calls spawn_command at most once; a successful call
\* closes the window and ends the loop, a failed one moves the status to
\* ExecError; from ExecError, NoArgs, XdgQueryError, DesktopFileParseError and
\* InvalidExecString nothing is spawned and the status never changes; a call
\* is made only from PromptExec or from CouldntDetermineDefault, there with the
\* typed executable and the argument of the run as only argument.
C21_SingleLaunch ==
    [](Len(spawns) <= 1)
    /\ [][SpawnStep /\ FailedSpawnStep /\ SuccessfulSpawnStep /\ FinalStep]_vars

(***************************************************************************)
(* parse_desktop_file run alone, on every file of at most MaxLines lines   *)
(* drawn from LineSet.                                                     *)
(***************************************************************************)
MaxLines == 4

LineSet ==
    {DesktopEntryHeader, <<" ", "[", "D", "e", "s", "k", "t", "o", "p", " ", "E", "n", "t", "r", "y", "]", " ">>, <<"[", "O", "]">>, <<" ", "[", "x">>, <<"E", "=", "a">>,
     <<" ", "E", " ", "=", " ", "b", " ">>, <<"N", "=", "n">>, <<"x">>, <<"N", "=", "[", "=">>, <<>>}

SeqsUpTo(S, n) == UNION {[1..k -> S] : k \in 0..n}

\* the variables of the pipeline, when only one function is run
Idle ==
    /\ de = None
    /\ data_dir = None
    /\ fs = [sys |-> Err("NotFound"), user |-> Err("NotFound")]
    /\ url_mime = None
    /\ url_path = <<>>
    /\ mime = <<>>
    /\ default = None
    /\ status = NoArgs
    /\ log = <<>>
    /\ rw_open = TRUE
    /\ fallback_exec_string = <<>>
    /\ spawns = <<>>
    /\ ev = NoEvents

InitParse ==
    /\ pc = "parse"
    /\ lines \in SeqsUpTo(LineSet, MaxLines)
    /\ arg = None
    /\ exec = <<>>
    /\ stdout = None
    /\ result = None
    /\ Idle

ParseFile ==
    /\ pc = "parse"
    /\ result' = parse_desktop_file(Ok(lines))
    /\ pc' = "parsed"
    /\ UNCHANGED <<gui, stdout>>
    /\ UNCHANGED <<arg, de, data_dir, fs, url_mime, url_path, mime, default, status, log,
                   lines, exec>>

NextParse == ParseFile

SpecParse == InitParse /\ [][NextParse]_vars

\* the lines that trim to the group header, and the lines that start a group
HeaderLines == {i \in DOMAIN lines : Trim(lines[i]) = <<"[", "D", "e", "s", "k", "t", "o", "p", " ", "E", "n", "t", "r", "y", "]">>}
GroupLines == {i \in DOMAIN lines : Trim(lines[i]) # <<>> /\ Head(Trim(lines[i])) = "["}
FirstHeader == Min(HeaderLines)
GroupEnd ==
    LET after == {i \in GroupLines : i > FirstHeader}
    IN IF after = {} THEN Len(lines) + 1 ELSE Min(after)

\* line i is key=value with this key and value: the text before its first '='
\* trims to k, the text after it to v
IsKeyValue(line, k, v) ==
    \E p \in DOMAIN line :
        /\ line[p] = "="
        /\ \A q \in 1..(p - 1) : line[q] # "="
        /\ Trim(SubSeq(line, 1, p - 1)) = k
        /\ Trim(SubSeq(line, p + 1, Len(line))) = v

\* C4: every key of the map parse_desktop_file returns comes, with its value,
\* from a key=value line strictly after the first line that trims to
\* [Desktop Entry] and strictly before the next line after it that starts a
\* group; if no line is the header the map is empty.
C4_OnlyDesktopEntryGroup ==
    pc = "parsed" =>
        /\ result.ok
        /\ IF HeaderLines = {} THEN DOMAIN result.val = {}
           ELSE \A k \in DOMAIN result.val :
                   \E i \in (FirstHeader + 1)..(GroupEnd - 1) :
                      IsKeyValue(lines[i], k, result.val[k])

\* a key=value line before the header and one in a repeated [Desktop Entry]
\* group, both left out
C4_Witness ==
    /\ pc = "parsed"
    /\ lines = <<<<"N", "=", "n">>, <<" ", "[", "D", "e", "s", "k", "t", "o", "p", " ", "E", "n", "t", "r", "y", "]", " ">>, <<" ", "E", " ", "=", " ", "b", " ">>, <<"[", "D", "e", "s", "k", "t", "o", "p", " ", "E", "n", "t", "r", "y", "]">>>>
       \/ lines = <<<<"[", "D", "e", "s", "k", "t", "o", "p", " ", "E", "n", "t", "r", "y", "]">>, <<"E", "=", "a">>, <<"[", "D", "e", "s", "k", "t", "o", "p", " ", "E", "n", "t", "r", "y", "]">>, <<"N", "=", "n">>>>
    /\ DOMAIN result.val = {<<"E">>}

(***************************************************************************)
(* args_from_exec_string run alone, on every Exec string made of an        *)
(* optional command prefix and at most MaxPieces pieces of PieceSet.       *)
(***************************************************************************)
MaxPieces == 3

PieceSet ==
    {<<"a">>, <<" ">>, <<"\"">>, <<"'">>, <<"\\">>, <<"#">>, <<"%", "f">>, <<"%", "U">>, <<"%", "u">>, <<"%", "F">>,
     <<"%", "i">>, <<"-", "f", "=", "%", "f">>}

RECURSIVE Concat(_)
Concat(ps) == IF ps = <<>> THEN <<>> ELSE Head(ps) \o Concat(Tail(ps))

ExecExamples == {<<"a", "p", "p", " ", "\"", "%", "f", "\"", " ", "-", "-", "f", "l", "a", "g">>, <<"a", "p", "p", " ", "%", "F", " ", "-", "f", "=", "%", "f", " ", "%", "i", " ", "%", "c", " ", "%", "k">>}

ExecSet ==
    {pre \o Concat(ps) : pre \in {<<>>, <<"a", "p", "p", " ">>}, ps \in SeqsUpTo(PieceSet, MaxPieces)}
    \cup ExecExamples

InitExec ==
    /\ pc = "exec"
    /\ exec \in ExecSet
    /\ arg \in {Some(<<"/", "t", "m", "p", "/", "a", " ", "b", ".", "t", "x", "t">>), Some(<<"/", InvalidByte>>)}
    /\ lines = <<>>
    /\ stdout = None
    /\ result = None
    /\ Idle

TokenizeExec ==
    /\ pc = "exec"
    /\ result' = args_from_exec_string(exec, arg.val)
    /\ pc' = "tokenized"
    /\ UNCHANGED <<gui, stdout>>
    /\ UNCHANGED <<arg, de, data_dir, fs, url_mime, url_path, mime, default, status, log,
                   lines, exec>>

NextExec == TokenizeExec

SpecExec == InitExec /\ [][NextExec]_vars

\* C5: when the Exec string tokenizes to a non-empty list t, the result is the
\* executable t[1] and one argument per further token, in order: the raw
\* argument for a token that is exactly %U, %u or %f, the token itself
\* otherwise.  A field code quoted in the Exec string is substituted too.
C5_FieldCodes ==
    pc = "tokenized" =>
        LET t == shlex_split(exec)
        IN /\ (t.some /\ t.val # <<>>) =>
                 /\ result.some
                 /\ result.val.exec = t.val[1]
                 /\ Len(result.val.args) = Len(t.val) - 1
                 /\ \A i \in 1..(Len(t.val) - 1) :
                       result.val.args[i] =
                          IF t.val[i + 1] \in {<<"%", "U">>, <<"%", "u">>, <<"%", "f">>}
                          THEN arg.val
                          ELSE t.val[i + 1]
           /\ exec = <<"a", "p", "p", " ", "\"", "%", "f", "\"", " ", "-", "-", "f", "l", "a", "g">> =>
                 result = Some([exec |-> <<"a", "p", "p">>, args |-> <<arg.val, <<"-", "-", "f", "l", "a", "g">>>>])
           /\ exec = <<"a", "p", "p", " ", "'", "%", "u", "'">> =>
                 result = Some([exec |-> <<"a", "p", "p">>, args |-> <<arg.val>>])
           /\ exec = <<"a", "p", "p", " ", "%", "F", " ", "-", "f", "=", "%", "f", " ", "%", "i", " ", "%", "c", " ", "%", "k">> =>
                 result = Some([exec |-> <<"a", "p", "p">>,
                                args |-> <<<<"%", "F">>, <<"-", "f", "=", "%", "f">>, <<"%", "i">>, <<"%", "c">>,
                                           <<"%", "k">>>>])
           /\ exec = <<"a", "p", "p", " ", "%", "f", "\\", " ">> =>
                 result = Some([exec |-> <<"a", "p", "p">>, args |-> <<<<"%", "f", " ">>>>])

C5_Witness ==
    /\ pc = "tokenized"
    /\ exec = <<"a", "p", "p", " ", "\"", "%", "f", "\"", " ", "-", "-", "f", "l", "a", "g">>
    /\ arg.val = <<"/", "t", "m", "p", "/", "a", " ", "b", ".", "t", "x", "t">>
    /\ result.val.args = <<<<"/", "t", "m", "p", "/", "a", " ", "b", ".", "t", "x", "t">>, <<"-", "-", "f", "l", "a", "g">>>>

(***************************************************************************)
(* The four query functions run alone, on every stdout of at most MaxOut   *)
(* bytes of ByteSet.                                                       *)
(***************************************************************************)
MaxOut == 4

ByteSet == {" ", "\n", "a", "/", InvalidByte}

InitQuery ==
    /\ pc = "query"
    /\ stdout \in {Err("NotFound")} \cup {Ok(b) : b \in SeqsUpTo(ByteSet, MaxOut)}
    /\ arg = None
    /\ lines = <<>>
    /\ exec = <<>>
    /\ result = None
    /\ Idle

QueryAll ==
    /\ pc = "query"
    /\ \E a \in {<<"/", "t", "/", "a", " ", "b">>, <<"/", InvalidByte>>}, m \in {<<"t", "e", "x", "t", "/", "p", "l", "a", "i", "n">>, PeMime} :
          result' = [mime_xdg |-> generic_xdg_query_mime_xdg(a, stdout),
                     default_xdg |-> generic_xdg_query_default(m, stdout),
                     mime_qt |-> qt_xdg_query_mime(a, stdout),
                     default_qt |-> qt_xdg_query_default(m, stdout)]
    /\ pc' = "queried"
    /\ UNCHANGED <<gui, stdout>>
    /\ UNCHANGED <<arg, de, data_dir, fs, url_mime, url_path, mime, default, status, log,
                   lines, exec>>

NextQuery == QueryAll

SpecQuery == InitQuery /\ [][NextQuery]_vars

\* the bytes of the stdout that are not white space
NonBlank == {i \in DOMAIN stdout.val : stdout.val[i] \notin {" ", "\t", "\n", "\r"}}

\* the result the normalization rule gives for the stdout
Normalized ==
    IF \E i \in DOMAIN stdout.val : stdout.val[i] = InvalidByte THEN Err("InvalidUtf8")
    ELSE IF NonBlank = {} THEN Err("Empty")
    ELSE Ok(SubSeq(stdout.val, Min(NonBlank), Max(NonBlank)))

\* C11: for the same stdout bytes the four query functions return the same
\* result: InvalidUtf8 for bytes that are not UTF-8, Empty for text that is all
\* white space, and otherwise the text from its first to its last character
\* that is not white space.
C11_SameNormalization ==
    (pc = "queried" /\ stdout.ok) =>
        /\ result.mime_xdg.res = Normalized
        /\ result.default_xdg.res = Normalized
        /\ result.mime_qt.res = Normalized
        /\ result.default_qt.res = Normalized

C11_Witness ==
    /\ pc = "queried"
    /\ stdout = Ok(<<" ", "a", "/", "\n">>)
    /\ result.mime_xdg.res = Ok(<<"a", "/">>)
    /\ result.default_qt.res = Ok(<<"a", "/">>)

====
